---- MODULE Spec2Model ----
(***************************************************************************)
(* A model of freemap.py: main() and extract_tiles(), which stream the     *)
(* rows of the tiles table of an MBTiles archive into a directory tree     *)
(* outputDir/<zoom>/<column>/<row>.<format>, and of get_tile_format().     *)
(* The file system is modelled by the set of directories below the output  *)
(* directory, the tile files with the bytes visible in them, and           *)
(* index.html in the current working directory.                            *)
(***************************************************************************)
EXTENDS Integers, Sequences, FiniteSets, TLC

\* Bound of the model: the number of rows of the tiles table.
MaxRows == 2

\* The zoom levels of the archives of the model.
ZoomLevels == {0, 1}

\* Tile blobs: byte strings of one and of two bytes.
Payloads == {<<7>>, <<7, 8>>}

\* One row of the tiles table, with tile_column and tile_row in [0, 2^zoom - 1].
TileRecord ==
    UNION {[zoom_level : {z}, tile_column : 0..(2^z - 1),
            tile_row : 0..(2^z - 1), tile_data : Payloads] : z \in ZoomLevels}

TileSeqs == UNION {[1..k -> TileRecord] : k \in 0..MaxRows}

NoRow == [zoom_level |-> 0, tile_column |-> 0, tile_row |-> 0, tile_data |-> <<>>]

\* The values the metadata table holds under name = 'format':
\* no such row (<<>>), or one row with the value.
MetaValues == {<<>>, <<"jpg">>, <<"">>}

\* The file at the input path: absent, not an SQLite database, or a database
\* with or without the metadata and tiles tables.
MissingFile ==
    [kind |-> "missing", hasMeta |-> FALSE, meta |-> <<>>, hasTiles |-> FALSE, tiles |-> <<>>]

NotADatabase ==
    [kind |-> "notadb", hasMeta |-> FALSE, meta |-> <<>>, hasTiles |-> FALSE, tiles |-> <<>>]

EmptyDatabase ==
    [kind |-> "db", hasMeta |-> FALSE, meta |-> <<>>, hasTiles |-> FALSE, tiles |-> <<>>]

Archives ==
    {MissingFile, NotADatabase}
    \cup [kind : {"db"}, hasMeta : {TRUE}, meta : MetaValues, hasTiles : {TRUE}, tiles : TileSeqs]
    \cup [kind : {"db"}, hasMeta : {FALSE}, meta : {<<>>}, hasTiles : {TRUE}, tiles : TileSeqs]
    \cup [kind : {"db"}, hasMeta : BOOLEAN, meta : {<<>>}, hasTiles : {FALSE}, tiles : {<<>>}]

VARIABLES
    archive,        \* the file at args.input_file
    tms_scheme,     \* args.tms
    output_is_cwd,  \* the output directory is the current working directory (-o .)
    pc,             \* the statement the program is at
    conn,           \* the sqlite3 connection is open
    conn_mode,      \* the mode the connection was opened in
    tile_format,    \* the value of get_tile_format(cur)
    count,          \* SELECT COUNT(*) FROM tiles; -1 before the query
    idx,            \* rows of the cursor whose loop body has completed
    row,            \* the row the loop body is working on
    y,              \* the output row of that row
    pos,            \* bytes of tile_data written to the open file
    n,              \* the count of the tqdm progress bar
    dirs,           \* directories that exist: <<>> is output_dir, <<z>>, <<z, x>>
    files,          \* tile path -> the bytes visible in the file at that path
    index_html,     \* index.html exists in the current working directory
    out,            \* the messages printed
    exc,            \* the exception raised last ("" when none was)
    exit_code       \* the exit status of the process; -1 while it runs

vars == <<archive, tms_scheme, output_is_cwd, pc, conn, conn_mode, tile_format, count,
          idx, row, y, pos, n, dirs, files, index_html, out, exc, exit_code>>

Msg(tag, err) == [tag |-> tag, err |-> err]

NoFiles == [p \in {} |-> <<>>]

\* The directories that exist before the program runs: the current working
\* directory exists, any other output directory does not.
InitDirs(isCwd) == IF isCwd THEN {<<>>} ELSE {}

Init ==
    /\ archive \in Archives
    /\ tms_scheme \in BOOLEAN
    /\ output_is_cwd \in BOOLEAN
    /\ pc = "main"
    /\ conn = FALSE
    /\ conn_mode = "none"
    /\ tile_format = "unset"
    /\ count = -1
    /\ idx = 0
    /\ row = NoRow
    /\ y = 0
    /\ pos = 0
    /\ n = 0
    /\ dirs = InitDirs(output_is_cwd)
    /\ files = NoFiles
    /\ index_html = FALSE
    /\ out = <<>>
    /\ exc = ""
    /\ exit_code = -1

----
\* Pure functions of the program.

\* The highest zoom level of the archive.
MaxArchiveZoom ==
    IF archive.tiles = <<>> THEN 0
    ELSE CHOOSE z \in {archive.tiles[i].zoom_level : i \in 1..Len(archive.tiles)} :
           \A i \in 1..Len(archive.tiles) : archive.tiles[i].zoom_level <= z

\* The flip computed once for the archive, with its highest zoom level.
OutputRow_global(tms, zoom, r) == IF ~tms THEN (2^MaxArchiveZoom - 1) - r ELSE r

\* y = (2**zoom - 1) - y unless tms_scheme
OutputRow(tms, zoom, r) == IF ~tms THEN (2^zoom - 1) - r ELSE r

\* os.path.join(output_dir, str(zoom), str(x), f"{y}.{tile_format}")
TilePath(zoom, x, yy, fmt) == [zoom |-> zoom, col |-> x, row |-> yy, ext |-> fmt]

\* get_tile_format: the value it returns, whether it printed the warning, and
\* the exception that escapes it ("" when none does).
get_tile_format(a) ==
    IF a.kind = "notadb"
    THEN [raises |-> "DatabaseError", warned |-> FALSE, value |-> "unset"]
    ELSE IF ~a.hasMeta
    THEN [raises |-> "", warned |-> TRUE, value |-> "png"]
    ELSE IF a.meta # <<>>
    THEN [raises |-> "", warned |-> FALSE, value |-> a.meta[1]]
    ELSE [raises |-> "", warned |-> FALSE, value |-> "png"]

\* sqlite3.connect(db_file): read-write, creating the file when it is absent.
ConnectMode == "rwc"

\* The test for an empty archive left out.
IsEmptyCount_never(c) == FALSE

\* if count == 0
IsEmptyCount(c) == c = 0

\* os.makedirs without exist_ok: an existing directory is an error.
MakedirsErrors_noExistOk(exists) == IF exists THEN {"EEXIST"} ELSE {"EACCES"}

\* The errors os.makedirs(path, exist_ok=True) can raise, given whether the
\* directory exists.
MakedirsErrors(exists) == IF exists THEN {} ELSE {"EACCES"}

\* A handler inside the loop that skips the failing row and goes on.
HandleException_skip(tag, err) ==
    /\ exc' = err
    /\ out' = Append(out, Msg(tag, err))
    /\ pc' = "fetch"
    /\ idx' = idx + 1
    /\ row' = NoRow
    /\ y' = 0
    /\ pos' = 0
    /\ UNCHANGED <<conn, n>>

\* The progress count updated in the handler too: the failing row is counted.
HandleException_counts(tag, err) ==
    /\ exc' = err
    /\ out' = Append(out, Msg(tag, err))
    /\ conn' = FALSE
    /\ pc' = "returned"
    /\ n' = n + 1
    /\ UNCHANGED <<idx, row, y, pos>>

\* The handlers of extract_tiles, followed by its finally clause: the message
\* is printed, the connection is closed and the function returns.
HandleException(tag, err) ==
    /\ exc' = err
    /\ out' = Append(out, Msg(tag, err))
    /\ conn' = FALSE
    /\ pc' = "returned"
    /\ UNCHANGED <<idx, n, row, y, pos>>

----
\* main()

MainCheckInput ==
    /\ pc = "main"
    /\ IF archive.kind = "missing"
       THEN /\ out' = Append(out, Msg("input_not_found", ""))
            /\ exit_code' = 1
            /\ pc' = "exited"
       ELSE /\ pc' = "makedirs"
            /\ UNCHANGED <<out, exit_code>>
    /\ UNCHANGED <<archive, tms_scheme, output_is_cwd, conn, conn_mode, tile_format, count,
                   idx, row, y, pos, n, dirs, files, index_html, exc>>

MainMakeOutputDir ==
    /\ pc = "makedirs"
    /\ \E e \in {"ok"} \cup MakedirsErrors(<<>> \in dirs) :
         IF e = "ok"
         THEN /\ dirs' = dirs \cup {<<>>}
              /\ pc' = "connect"
              /\ UNCHANGED <<out, exit_code, exc>>
         ELSE /\ exc' = e
              /\ out' = Append(out, Msg("traceback", e))
              /\ exit_code' = 1
              /\ pc' = "exited"
              /\ dirs' = dirs
    /\ UNCHANGED <<archive, tms_scheme, output_is_cwd, conn, conn_mode, tile_format, count,
                   idx, row, y, pos, n, files, index_html>>

MainExit ==
    /\ pc = "returned"
    /\ exit_code' = 0
    /\ pc' = "exited"
    /\ UNCHANGED <<archive, tms_scheme, output_is_cwd, conn, conn_mode, tile_format, count,
                   idx, row, y, pos, n, dirs, files, index_html, out, exc>>

----
\* extract_tiles()

Connect ==
    /\ pc = "connect"
    /\ conn' = TRUE
    /\ conn_mode' = ConnectMode
    /\ archive' = IF archive.kind = "missing" THEN EmptyDatabase ELSE archive
    /\ pc' = "format"
    /\ UNCHANGED <<tms_scheme, output_is_cwd, tile_format, count, idx, row, y, pos, n,
                   dirs, files, index_html, out, exc, exit_code>>

ReadFormat ==
    /\ pc = "format"
    /\ LET r == get_tile_format(archive) IN
         IF r.raises # ""
         THEN /\ HandleException("unexpected", r.raises)
              /\ UNCHANGED tile_format
         ELSE /\ tile_format' = r.value
              /\ out' = IF r.warned
                        THEN out \o <<Msg("warning", ""), Msg("detected", r.value)>>
                        ELSE Append(out, Msg("detected", r.value))
              /\ pc' = "count"
              /\ UNCHANGED <<conn, idx, n, row, y, pos, exc>>
    /\ UNCHANGED <<archive, tms_scheme, output_is_cwd, conn_mode, count, dirs, files,
                   index_html, exit_code>>

CountTiles ==
    /\ pc = "count"
    /\ IF ~archive.hasTiles
       THEN /\ HandleException("error", "no such table: tiles")
            /\ UNCHANGED count
       ELSE /\ count' = Len(archive.tiles)
            /\ IF IsEmptyCount(Len(archive.tiles))
               THEN /\ out' = Append(out, Msg("nothing", ""))
                    /\ conn' = FALSE
                    /\ pc' = "returned"
               ELSE /\ out' = Append(out, Msg("found", ""))
                    /\ pc' = "fetch"
                    /\ UNCHANGED conn
            /\ UNCHANGED <<idx, n, row, y, pos, exc>>
    /\ UNCHANGED <<archive, tms_scheme, output_is_cwd, conn_mode, tile_format, dirs, files,
                   index_html, exit_code>>

\* for row in tqdm(cur, ...): the next row and its output row, or the end of the loop.
FetchRow ==
    /\ pc = "fetch"
    /\ IF idx < Len(archive.tiles)
       THEN /\ row' = archive.tiles[idx + 1]
            /\ y' = OutputRow(tms_scheme, archive.tiles[idx + 1].zoom_level,
                              archive.tiles[idx + 1].tile_row)
            /\ pc' = "mkdir"
            /\ out' = out
       ELSE /\ out' = Append(out, Msg("complete", ""))
            /\ pc' = "html"
            /\ UNCHANGED <<row, y>>
    /\ UNCHANGED <<archive, tms_scheme, output_is_cwd, conn, conn_mode, tile_format, count,
                   idx, pos, n, dirs, files, index_html, exc, exit_code>>

\* os.makedirs(tile_dir, exist_ok=True); a failure may have created the zoom directory.
MakeTileDir ==
    /\ pc = "mkdir"
    /\ LET z == row.zoom_level
           x == row.tile_column
       IN \E e \in {"ok"} \cup MakedirsErrors(<<z, x>> \in dirs) :
            IF e = "ok"
            THEN /\ dirs' = dirs \cup {<<>>, <<z>>, <<z, x>>}
                 /\ pc' = "open"
                 /\ UNCHANGED <<out, conn, idx, n, row, y, pos, exc>>
            ELSE /\ dirs' \in {dirs, dirs \cup {<<>>, <<z>>}}
                 /\ HandleException("unexpected", e)
    /\ UNCHANGED <<archive, tms_scheme, output_is_cwd, conn_mode, tile_format, count, files,
                   index_html, exit_code>>

\* open(tile_path, 'wb'): the file is created, or truncated when it exists.
OpenTile ==
    /\ pc = "open"
    /\ LET path == TilePath(row.zoom_level, row.tile_column, y, tile_format) IN
         \E e \in {"ok", "EACCES"} :
            IF e = "ok"
            THEN /\ files' = [p \in DOMAIN files \cup {path} |->
                                IF p = path THEN <<>> ELSE files[p]]
                 /\ pos' = 0
                 /\ pc' = "write"
                 /\ UNCHANGED <<out, conn, idx, n, row, y, exc>>
            ELSE /\ HandleException("unexpected", e)
                 /\ files' = files
    /\ UNCHANGED <<archive, tms_scheme, output_is_cwd, conn_mode, tile_format, count, dirs,
                   index_html, exit_code>>

\* f.write(tile_data): the bytes reach the file one after the other; the device may fill up.
WriteTile ==
    /\ pc = "write"
    /\ pos < Len(row.tile_data)
    /\ LET path == TilePath(row.zoom_level, row.tile_column, y, tile_format) IN
         \E e \in {"ok", "ENOSPC"} :
            IF e = "ok"
            THEN /\ files' = [files EXCEPT ![path] = Append(@, row.tile_data[pos + 1])]
                 /\ pos' = pos + 1
                 /\ UNCHANGED <<pc, out, conn, idx, n, row, y, exc>>
            ELSE /\ HandleException("unexpected", e)
                 /\ files' = files
    /\ UNCHANGED <<archive, tms_scheme, output_is_cwd, conn_mode, tile_format, count, dirs,
                   index_html, exit_code>>

\* The with block is left, the file is closed, and tqdm's iterator, resumed for
\* the next row, counts the row whose body has completed.
CloseTile ==
    /\ pc = "write"
    /\ pos = Len(row.tile_data)
    /\ n' = n + 1
    /\ idx' = idx + 1
    /\ row' = NoRow
    /\ y' = 0
    /\ pos' = 0
    /\ pc' = "fetch"
    /\ UNCHANGED <<archive, tms_scheme, output_is_cwd, conn, conn_mode, tile_format, count,
                   dirs, files, index_html, out, exc, exit_code>>

\* create_static_html_viewer writes index.html in the current working
\* directory and absorbs a failure to do so; then the finally clause.
CreateViewer ==
    /\ pc = "html"
    /\ \E ok \in BOOLEAN :
         IF ok
         THEN /\ index_html' = TRUE
              /\ out' = Append(out, Msg("viewer_created", ""))
         ELSE /\ index_html' = index_html
              /\ out' = Append(out, Msg("viewer_error", "EACCES"))
    /\ conn' = FALSE
    /\ pc' = "returned"
    /\ UNCHANGED <<archive, tms_scheme, output_is_cwd, conn_mode, tile_format, count,
                   idx, row, y, pos, n, dirs, files, exc, exit_code>>

\* The run is interrupted inside the loop: KeyboardInterrupt is no Exception,
\* so only the finally clause runs and the process ends with a non-zero status.
Interrupt ==
    /\ pc \in {"fetch", "mkdir", "open", "write"}
    /\ conn' = FALSE
    /\ exc' = "KeyboardInterrupt"
    /\ out' = Append(out, Msg("traceback", "KeyboardInterrupt"))
    /\ exit_code' = 130
    /\ pc' = "exited"
    /\ UNCHANGED <<archive, tms_scheme, output_is_cwd, conn_mode, tile_format, count,
                   idx, row, y, pos, n, dirs, files, index_html>>

Next ==
    \/ MainCheckInput
    \/ MainMakeOutputDir
    \/ Connect
    \/ ReadFormat
    \/ CountTiles
    \/ FetchRow
    \/ MakeTileDir
    \/ OpenTile
    \/ WriteTile
    \/ CloseTile
    \/ CreateViewer
    \/ MainExit
    \/ Interrupt

Spec == Init /\ [][Next]_vars

----
\* Definitions used by the properties.

Rows == archive.tiles

Coord(r) == <<r.zoom_level, r.tile_column, r.tile_row>>

\* The path a tile row is to be written at: outputDir/<zoom>/<column>/<outputRow>.<format>
ExpectedPath(r) ==
    [zoom |-> r.zoom_level,
     col |-> r.tile_column,
     row |-> IF tms_scheme THEN r.tile_row ELSE (2^r.zoom_level - 1) - r.tile_row,
     ext |-> tile_format]

DistinctCoords ==
    \A i, j \in 1..Len(Rows) : i # j => Coord(Rows[i]) # Coord(Rows[j])

Last(s) == s[Len(s)]

HasMsg(tag) == \E k \in 1..Len(out) : out[k].tag = tag

\* The loop has run to its end.
Completed == HasMsg("complete")

\* extract_tiles has returned, or the process has ended.
Done == pc \in {"returned", "exited"}

\* A directory creation or a tile write failed and was handled.
WriteFailed ==
    /\ out # <<>>
    /\ Last(out).tag = "unexpected"
    /\ exc \in {"EACCES", "ENOSPC", "EEXIST"}

\* Files under the output directory that are no tile files.
OtherFiles == IF output_is_cwd /\ index_html THEN {"index.html"} ELSE {}

\* Tile files that hold all the bytes of the blob of a row written at their path.
CompleteOnDisk ==
    {p \in DOMAIN files :
        \E i \in 1..Len(Rows) : ExpectedPath(Rows[i]) = p /\ files[p] = Rows[i].tile_data}

ArchiveUnreadable == archive.kind \in {"missing", "notadb"} \/ ~archive.hasTiles

----
\* C1: every row whose loop body has completed has its file at
\* outputDir/<zoom>/<column>/<outputRow>.<format>, inside the directory
\* <zoom>/<column>, where outputRow = (2^zoom - 1) - row in XYZ mode, with the
\* zoom of that row, and outputRow = row in TMS mode; no file is anywhere else.
\* Row (zoom=1, column=0, row=0) is at 1/0/1 in XYZ mode and at 1/0/0 in TMS mode.
C1_PathPerRow ==
    /\ \A i \in 1..idx : ExpectedPath(Rows[i]) \in DOMAIN files
    /\ \A p \in DOMAIN files :
         /\ \E i \in 1..Len(Rows) : i <= idx + 1 /\ p = ExpectedPath(Rows[i])
         /\ <<p.zoom, p.col>> \in dirs
    /\ \A i \in 1..idx :
         Coord(Rows[i]) = <<1, 0, 0>> =>
            [zoom |-> 1, col |-> 0, row |-> IF tms_scheme THEN 0 ELSE 1, ext |-> tile_format]
               \in DOMAIN files

\* An archive mixing zoom levels 1 and 0 was extracted in XYZ mode, and the
\* tile (1, 0, 0) is at 1/0/1.png.
C1_Witness ==
    /\ pc = "exited"
    /\ ~tms_scheme
    /\ idx = 2
    /\ Coord(Rows[1]) = <<1, 0, 0>>
    /\ Rows[2].zoom_level = 0
    /\ [zoom |-> 1, col |-> 0, row |-> 1, ext |-> "png"] \in DOMAIN files
    /\ [zoom |-> 0, col |-> 0, row |-> 0, ext |-> "png"] \in DOMAIN files

\* C2 as stated: after a complete extraction of N rows with distinct
\* (zoom, column, row) there are exactly N tile files and no other file under
\* the output directory, every row was visited once, and no directory creation
\* failed because the directory existed.
C2_ExactlyNFiles ==
    /\ (Done /\ Completed /\ DistinctCoords) =>
          /\ Cardinality(DOMAIN files) = Len(Rows)
          /\ \A i \in 1..Len(Rows) :
               /\ ExpectedPath(Rows[i]) \in DOMAIN files
               /\ files[ExpectedPath(Rows[i])] = Rows[i].tile_data
          /\ idx = Len(Rows)
          /\ n = Len(Rows)
          /\ OtherFiles = {}
    /\ \A k \in 1..Len(out) : out[k].err # "EEXIST"

\* C2 as amended: the same, except that index.html, which is written to the
\* current working directory, is under the output directory when the output
\* directory is the current working directory.
C2_ExactlyNTileFiles ==
    /\ (Done /\ Completed /\ DistinctCoords) =>
          /\ Cardinality(DOMAIN files) = Len(Rows)
          /\ \A i \in 1..Len(Rows) :
               /\ ExpectedPath(Rows[i]) \in DOMAIN files
               /\ files[ExpectedPath(Rows[i])] = Rows[i].tile_data
          /\ idx = Len(Rows)
          /\ n = Len(Rows)
          /\ OtherFiles \subseteq {"index.html"}
          /\ ~output_is_cwd => OtherFiles = {}
    /\ \A k \in 1..Len(out) : out[k].err # "EEXIST"

\* Two rows that share (zoom, column) and differ in row were extracted into
\* the same directory, and both files are there.
C2_Witness ==
    /\ Done
    /\ Completed
    /\ Len(Rows) = 2
    /\ Rows[1].zoom_level = Rows[2].zoom_level
    /\ Rows[1].tile_column = Rows[2].tile_column
    /\ Rows[1].tile_row # Rows[2].tile_row
    /\ Cardinality(DOMAIN files) = 2
    /\ ~output_is_cwd
    /\ index_html

\* C3: a file that exists at a final tile path holds all the bytes of its
\* source blob.
C3_AtomicPublish ==
    \A p \in DOMAIN files :
        \E i \in 1..Len(Rows) : ExpectedPath(Rows[i]) = p /\ files[p] = Rows[i].tile_data

\* C4: when a directory creation or a tile write has failed, the run has ended
\* at the failing row, the message printed carries the exception raised, the
\* progress count is the number of rows written before it, the files of those
\* rows are in place, and nothing is fetched or written afterwards.
C4_AbortState ==
    WriteFailed =>
        /\ Done
        /\ ~conn
        /\ Last(out).err = exc
        /\ idx < Len(Rows)
        /\ row = Rows[idx + 1]
        /\ n = idx
        /\ \A i \in 1..idx :
             /\ ExpectedPath(Rows[i]) \in DOMAIN files
             /\ ExpectedPath(Rows[i]) # ExpectedPath(Rows[idx + 1]) =>
                  \E j \in 1..idx : /\ ExpectedPath(Rows[j]) = ExpectedPath(Rows[i])
                                    /\ files[ExpectedPath(Rows[i])] = Rows[j].tile_data

C5_FormatOrDefault ==
    (conn_mode # "none" /\ pc # "format") =>
        /\ exc # "DatabaseError"
        /\ tile_format =
             IF archive.kind = "db" /\ archive.hasMeta /\ archive.meta # <<>>
                /\ archive.meta[1] # ""
             THEN archive.meta[1]
             ELSE "png"

\* C6: when the count query has returned 0, the loop is not entered, "No tiles
\* to extract." is the last message, there is no file, no subdirectory of the
\* output directory, no viewer page and no error, and the status is not an error.
C6_EmptyArchive ==
    count = 0 =>
        /\ Done
        /\ Last(out).tag = "nothing"
        /\ ~HasMsg("found") /\ ~HasMsg("complete")
        /\ ~HasMsg("error") /\ ~HasMsg("unexpected") /\ ~HasMsg("traceback")
        /\ files = NoFiles
        /\ dirs \subseteq {<<>>}
        /\ ~index_html
        /\ idx = 0 /\ n = 0 /\ row = NoRow
        /\ exc = ""
        /\ exit_code \in {-1, 0}

\* An archive with an empty tiles table was run to the end of the process.
C6_Witness ==
    /\ count = 0
    /\ archive.hasTiles
    /\ Rows = <<>>
    /\ pc = "exited"
    /\ exit_code = 0

\* C7: when the archive is unreadable, the run ends without having created a
\* directory or a file, the output directory included.
C7_NoOutputWhenUnreadable ==
    (pc = "exited" /\ ArchiveUnreadable) =>
        /\ dirs = InitDirs(output_is_cwd)
        /\ files = NoFiles
        /\ ~index_html

\* C8: the exit status is non-zero when the input path does not exist and when
\* extraction failed fatally, and zero after a complete extraction and for an
\* archive of zero tiles.
C8_ExitStatus ==
    pc = "exited" =>
        /\ archive.kind = "missing" => exit_code # 0
        /\ (HasMsg("error") \/ HasMsg("unexpected") \/ HasMsg("traceback")) => exit_code # 0
        /\ (Completed \/ count = 0) => exit_code = 0

\* C9: the progress count is the number of rows whose file has been written
\* and closed; with distinct coordinates that is the number of complete tile
\* files on disk, but for the file whose last byte is written and whose with
\* block is not yet left. The count never decreases, and it grows by one, when
\* the file of a row is closed after its last byte.
C9_CountState ==
    /\ n = idx
    /\ DistinctCoords =>
         Cardinality(CompleteOnDisk) =
            n + (IF row # NoRow /\ pos = Len(row.tile_data) THEN 1 ELSE 0)

C10_ReadOnlyArchive ==
    [][archive' = archive /\ (conn' => conn_mode' = "ro")]_vars

====
